---------------------------- MODULE Spec2Model ----------------------------
(***************************************************************************)
(* The Amazon Prime dashboard (src/app.py): a script that is re-executed   *)
(* top to bottom on every user interaction.  One render cycle loads the    *)
(* two tables (memoised by st.cache_data), renders the sidebar menu, runs  *)
(* the view branch of the selected menu entry and renders the footer.      *)
(*                                                                         *)
(* A file is absent, unparsable, or the rows pandas parses from it; every   *)
(* parsed table has the columns the views name.  Cells are options: <<>>   *)
(* is a missing value (NaN), <<v>> holds v.  Numbers are integers and a    *)
(* correlation coefficient is kept exactly, as its sign and the reduced    *)
(* fraction of its square.  A widget is changed between script runs, not   *)
(* during one.                                                             *)
(***************************************************************************)
EXTENDS Integers, Sequences, FiniteSets, TLC

VARIABLES
    disk,        \* the two files of data/ as storage holds them
    cache,       \* st.cache_data's entry for load_data(): <<>> or <<tables>>
    tieOrder,    \* how value_counts orders keys of equal count in this build
    pc,          \* the script's position in the current render cycle
    df,          \* the name df of the current script run: <<>> (unbound) or <<table>>
    df_credits,  \* the name df_credits of the current script run
    section,     \* the sidebar radio's value
    role,        \* the selectbox's value
    out,         \* what the current cycle has rendered so far, in order
    ran,         \* the view branches the current cycle has entered, in order
    ioLog,       \* the reads of storage the current cycle has made, in order
    first,       \* history: <<>> or <<the tables the first successful load returned>>
    loads,       \* history: how often load_data's body has run to its return
    interacted,  \* history: whether the user has changed a widget in this session
    ref          \* history: <<>> or <<a completed cycle's selection and output>>

vars == <<disk, cache, tieOrder, pc, df, df_credits, section, role, out, ran,
          ioLog, first, loads, interacted, ref>>

-----------------------------------------------------------------------------
(* Cells, rows and files *)

NA == <<>>

Val(v) == <<v>>

notna(c) == c # NA

Unbound == <<>>

Bound(t) == <<t>>

NoCache == <<>>

Missing == [kind |-> "missing"]

Malformed == [kind |-> "malformed"]

Csv(rows) == [kind |-> "csv", rows |-> rows]

TitleColumns ==
    <<"primary_genre", "type", "release_year", "imdb_score", "imdb_votes",
      "tmdb_score", "tmdb_popularity">>

TitleRow(g, ty, yr, is, iv, ts, tp) ==
    [primary_genre |-> g, type |-> ty, release_year |-> yr, imdb_score |-> is,
     imdb_votes |-> iv, tmdb_score |-> ts, tmdb_popularity |-> tp]

CreditRow(n, r) == [name |-> n, role |-> r]

-----------------------------------------------------------------------------
(* The table operations the views use *)

\* df[col]: one column of a table, as a sequence of cells
Column(t, col) == [i \in 1..Len(t) |-> t[i][col]]

\* s.head(n)
head(s, n) == IF Len(s) <= n THEN s ELSE SubSeq(s, 1, n)

Reverse(s) == [i \in 1..Len(s) |-> s[Len(s) + 1 - i]]

\* the values of the non-missing cells of a column, in row order
Present(cells) ==
    LET F[i \in 0..Len(cells)] ==
            IF i = 0 THEN <<>>
            ELSE IF notna(cells[i]) THEN Append(F[i - 1], cells[i][1])
            ELSE F[i - 1]
    IN  F[Len(cells)]

\* the distinct values of a sequence, in order of first appearance
Uniq(s) ==
    LET F[i \in 0..Len(s)] ==
            IF i = 0 THEN <<>>
            ELSE IF \E j \in 1..(i - 1) : s[j] = s[i] THEN F[i - 1]
            ELSE Append(F[i - 1], s[i])
    IN  F[Len(s)]

Occurrences(s, k) == Cardinality({i \in DOMAIN s : s[i] = k})

\* a stable sort of counted keys by count, largest first
SortByCountDesc(kc) ==
    LET Insert(sorted, e) ==
            LET p == Cardinality({i \in DOMAIN sorted : sorted[i].count >= e.count})
            IN  SubSeq(sorted, 1, p) \o <<e>> \o SubSeq(sorted, p + 1, Len(sorted))
        F[i \in 0..Len(kc)] ==
            IF i = 0 THEN <<>> ELSE Insert(F[i - 1], kc[i])
    IN  F[Len(kc)]

\* Series.value_counts(): missing cells dropped, one entry per distinct value,
\* counts in non-increasing order; keys of equal count in the build's order
value_counts(cells, order) ==
    LET s    == Present(cells)
        keys == IF order = "first_seen" THEN Uniq(s) ELSE Reverse(Uniq(s))
        kc   == [i \in 1..Len(keys) |->
                    [key |-> keys[i], count |-> Occurrences(s, keys[i])]]
    IN  SortByCountDesc(kc)


CorrColumns == <<"imdb_score", "imdb_votes", "tmdb_score", "tmdb_popularity">>

\* df[cols].dropna(): the rows with no missing value in any of cols, as
\* functions from cols to numbers
dropna(t, cols) ==
    LET Complete(r) == \A i \in DOMAIN cols : notna(r[cols[i]])
        kept == SelectSeq(t, Complete)
    IN  [i \in 1..Len(kept) |->
            [c \in {cols[j] : j \in DOMAIN cols} |-> kept[i][c][1]]]

Sum(f, n) ==
    LET S[i \in 0..n] == IF i = 0 THEN 0 ELSE S[i - 1] + f[i]
    IN  S[n]

MinPeriods == 1

RECURSIVE Gcd(_, _)
Gcd(a, b) == IF b = 0 THEN a ELSE Gcd(b, a % b)

NaN == [nan |-> TRUE]

\* the number s * sqrt(num / den), num and den coprime
Coefficient(s, num, den) == [nan |-> FALSE, sgn |-> s, num |-> num, den |-> den]

One == Coefficient(1, 1, 1)

\* Pearson's coefficient of two columns of the complete rows, as pandas'
\* nancorr computes it with min_periods = 1: NaN with no row, and NaN when
\* the divisor sqrt(ssqdm_x * ssqdm_y) is zero.  n times the sums of squared
\* deviations and of co-deviations are the integers cxx, cyy and cxy.
Pearson(rows, a, b) ==
    LET n   == Len(rows)
        x   == [i \in 1..n |-> rows[i][a]]
        y   == [i \in 1..n |-> rows[i][b]]
        cxy == n * Sum([i \in 1..n |-> x[i] * y[i]], n) - Sum(x, n) * Sum(y, n)
        cxx == n * Sum([i \in 1..n |-> x[i] * x[i]], n) - Sum(x, n) * Sum(x, n)
        cyy == n * Sum([i \in 1..n |-> y[i] * y[i]], n) - Sum(y, n) * Sum(y, n)
        g   == Gcd(cxy * cxy, cxx * cyy)
    IN  IF n < MinPeriods THEN NaN
        ELSE IF cxx * cyy = 0 THEN NaN
        ELSE IF cxy = 0 THEN Coefficient(0, 0, 1)
        ELSE Coefficient(IF cxy < 0 THEN -1 ELSE 1,
                         (cxy * cxy) \div g, (cxx * cyy) \div g)

\* DataFrame.corr(): the matrix of pairwise coefficients, rows and columns
\* in the order of the frame's columns
corr(rows, cols) ==
    [i \in DOMAIN cols |-> [j \in DOMAIN cols |-> Pearson(rows, cols[i], cols[j])]]

-----------------------------------------------------------------------------
(* The script's constants *)

Sections ==
    <<"Dataset Overview", "Genre Analysis", "Content Type Distribution",
      "Release Year Analysis", "Ratings & Popularity", "Correlation Analysis",
      "Actors & Directors", "Conclusion">>

Roles == <<"ACTOR", "DIRECTOR">>

\* st.sidebar.radio and st.selectbox start at their first option
DefaultIndex == 1

HeadRows == 5

NBins == 30

TopN == 20

NoBranch == "(none)"

\* the orders in which a build's value_counts may leave keys of equal count
TieOrders == {"first_seen", "last_seen"}

-----------------------------------------------------------------------------
(* Loading *)

read_csv(file) ==
    IF file.kind = "csv" THEN [ok |-> TRUE, table |-> file.rows]
    ELSE [ok |-> FALSE,
          error |-> IF file.kind = "missing" THEN "FileNotFoundError"
                    ELSE "ParserError"]

\* load_data with a fallback: when the second read fails, the titles are
\* returned with an empty credits table
load_data_partial(d) ==
    LET t == read_csv(d.titles)
    IN  IF ~t.ok
        THEN [ok |-> FALSE, error |-> t.error,
              log |-> <<[file |-> "data/titles.csv", ok |-> FALSE]>>]
        ELSE LET c == read_csv(d.credits)
             IN  [ok |-> TRUE,
                  value |-> [df |-> t.table,
                             df_credits |-> IF c.ok THEN c.table ELSE <<>>],
                  log |-> <<[file |-> "data/titles.csv", ok |-> TRUE],
                            [file |-> "data/credits.csv", ok |-> c.ok]>>]

\* the body of load_data: the second file is read only after the first has
\* parsed, and an error of either read leaves the function at once
load_data(d) ==
    LET t == read_csv(d.titles)
    IN  IF ~t.ok
        THEN [ok |-> FALSE, error |-> t.error,
              log |-> <<[file |-> "data/titles.csv", ok |-> FALSE]>>]
        ELSE LET c == read_csv(d.credits)
             IN  IF ~c.ok
                 THEN [ok |-> FALSE, error |-> c.error,
                       log |-> <<[file |-> "data/titles.csv", ok |-> TRUE],
                                 [file |-> "data/credits.csv", ok |-> FALSE]>>]
                 ELSE [ok |-> TRUE,
                       value |-> [df |-> t.table, df_credits |-> c.table],
                       log |-> <<[file |-> "data/titles.csv", ok |-> TRUE],
                                 [file |-> "data/credits.csv", ok |-> TRUE]>>]

\* load_data without @st.cache_data: the body runs on every call
uncached_load_data(c, d) ==
    LET r == load_data(d)
    IN  IF r.ok
        THEN [ok |-> TRUE, value |-> r.value, log |-> r.log, store |-> <<r.value>>]
        ELSE [ok |-> FALSE, error |-> r.error, log |-> r.log, store |-> NoCache]

\* @st.cache_data: a stored entry is returned without running the body; the
\* body's value is stored, its error is not
cached_load_data(c, d) ==
    IF c # NoCache
    THEN [ok |-> TRUE, value |-> c[1], log |-> <<>>, store |-> c]
    ELSE LET r == load_data(d)
         IN  IF r.ok
             THEN [ok |-> TRUE, value |-> r.value, log |-> r.log,
                   store |-> <<r.value>>]
             ELSE [ok |-> FALSE, error |-> r.error, log |-> r.log,
                   store |-> NoCache]

-----------------------------------------------------------------------------
(* What each view renders *)

Item(w, body) == [w |-> w, body |-> body]

\* Series.reset_index() followed by the renaming of the two columns
reset_index(vc, keyName, countName) ==
    [i \in 1..Len(vc) |-> (keyName :> vc[i].key) @@ (countName :> vc[i].count)]

HeaderItems ==
    <<Item("title", "Amazon Prime Content Analysis Dashboard"),
      Item("markdown", "description")>>

SidebarItems(s) ==
    <<Item("sidebar.title", "Navigation"),
      Item("sidebar.radio", [label |-> "Go to", options |-> Sections, value |-> s])>>

FooterItems ==
    <<Item("markdown", "---"),
      Item("markdown", "Amazon Prime Data Analysis | Built with Streamlit")>>

OverviewItems(t) ==
    <<Item("header", "Dataset Overview"),
      Item("write", [label |-> "Dataset Shape", shape |-> <<Len(t), Len(TitleColumns)>>]),
      Item("dataframe", head(t, HeadRows)),
      Item("subheader", "Column Information"),
      Item("write", [dtypes |-> TitleColumns])>>

\* the genre filter with its test inverted
genre_df_isna(t) ==
    LET NoGenre(r) == ~notna(r.primary_genre)
    IN  SelectSeq(t, NoGenre)

genre_df(t) ==
    LET HasGenre(r) == notna(r.primary_genre)
    IN  SelectSeq(t, HasGenre)

genre_counts(t, order) ==
    reset_index(value_counts(Column(genre_df(t), "primary_genre"), order),
                "Genre", "Count")

GenreItems(t, order) ==
    <<Item("header", "Genre Analysis"),
      Item("plotly_chart",
           [fig |-> "bar", x |-> "Genre", y |-> "Count",
            title |-> "Content Distribution by Primary Genre",
            data |-> genre_counts(t, order)])>>

type_counts(t, order) ==
    reset_index(value_counts(Column(t, "type"), order), "Type", "Count")

TypeItems(t, order) ==
    <<Item("header", "Movies vs TV Shows"),
      Item("plotly_chart",
           [fig |-> "bar", x |-> "Type", y |-> "Count",
            title |-> "Movies vs TV Shows Distribution",
            data |-> type_counts(t, order)])>>

YearItems(t) ==
    <<Item("header", "Release Year Trends"),
      Item("plotly_chart",
           [fig |-> "histogram", x |-> "release_year", nbins |-> NBins,
            title |-> "Distribution of Content by Release Year",
            data |-> Column(t, "release_year")])>>

Scatter(t, xcol, ycol, title) ==
    Item("plotly_chart",
         [fig |-> "scatter", x |-> xcol, y |-> ycol, xaxis |-> "log",
          title |-> title,
          data |-> [i \in 1..Len(t) |-> <<t[i][xcol], t[i][ycol]>>]])

RatingsItems(t) ==
    <<Item("header", "Ratings & Popularity Analysis"),
      Scatter(t, "imdb_votes", "imdb_score", "IMDb Votes vs IMDb Score"),
      Scatter(t, "tmdb_popularity", "tmdb_score", "TMDB Popularity vs TMDB Score")>>

\* the matrix taken over the columns in another order than the labels
corr_matrix_reordered(t) == corr(dropna(t, CorrColumns), Reverse(CorrColumns))

corr_matrix(t) == corr(dropna(t, CorrColumns), CorrColumns)

CorrelationItems(t) ==
    <<Item("header", "Correlation Heatmap"),
      Item("plotly_chart",
           [fig |-> "imshow", labels |-> CorrColumns,
            title |-> "Correlation Heatmap of Ratings & Popularity",
            data |-> corr_matrix(t)])>>

filtered_df(c, r) ==
    LET HasRole(row) == row.role = Val(r)
    IN  SelectSeq(c, HasRole)

\* s.tail(n)
tail(s, n) == IF Len(s) <= n THEN s ELSE SubSeq(s, Len(s) - n + 1, Len(s))

\* the participation counts cut with tail instead of head
counts_tail(c, r, order) ==
    reset_index(tail(value_counts(Column(filtered_df(c, r), "name"), order), TopN),
                "Name", "Count")

counts(c, r, order) ==
    reset_index(head(value_counts(Column(filtered_df(c, r), "name"), order), TopN),
                "Name", "Count")

ActorsItems(c, r, order) ==
    <<Item("header", "Actor & Director Participation"),
      Item("selectbox", [label |-> "Select Role", options |-> Roles, value |-> r]),
      Item("plotly_chart",
           [fig |-> "bar", x |-> "Count", y |-> "Name", orientation |-> "h",
            title |-> <<"Top 20 ", r, "s by Participation Volume">>,
            data |-> counts(c, r, order)])>>

ConclusionItems ==
    <<Item("header", "Project Conclusion"),
      Item("markdown", "conclusion")>>

\* the chain with one label misspelt in its test
BranchTypo(s) ==
    IF s = "Dataset Overview" THEN "Dataset Overview"
    ELSE IF s = "Genre Analysis" THEN "Genre Analysis"
    ELSE IF s = "Content Type" THEN "Content Type Distribution"
    ELSE IF s = "Release Year Analysis" THEN "Release Year Analysis"
    ELSE IF s = "Ratings & Popularity" THEN "Ratings & Popularity"
    ELSE IF s = "Correlation Analysis" THEN "Correlation Analysis"
    ELSE IF s = "Actors & Directors" THEN "Actors & Directors"
    ELSE IF s = "Conclusion" THEN "Conclusion"
    ELSE NoBranch

\* the if/elif chain: the first test that section passes names the branch
Branch(s) ==
    IF s = "Dataset Overview" THEN "Dataset Overview"
    ELSE IF s = "Genre Analysis" THEN "Genre Analysis"
    ELSE IF s = "Content Type Distribution" THEN "Content Type Distribution"
    ELSE IF s = "Release Year Analysis" THEN "Release Year Analysis"
    ELSE IF s = "Ratings & Popularity" THEN "Ratings & Popularity"
    ELSE IF s = "Correlation Analysis" THEN "Correlation Analysis"
    ELSE IF s = "Actors & Directors" THEN "Actors & Directors"
    ELSE IF s = "Conclusion" THEN "Conclusion"
    ELSE NoBranch

-----------------------------------------------------------------------------
(* The inputs: the files storage may hold *)

MaxTitles == 1

MaxCredits == 1

Tables(pool, n) == UNION {[1..k -> pool] : k \in 0..n}

SampleTitleRows ==
    {TitleRow(Val("Drama"), Val("MOVIE"), Val(2001), Val(7), Val(100), Val(6), Val(5)),
     TitleRow(NA, Val("SHOW"), Val(2010), NA, NA, Val(8), Val(9))}

SampleCreditRows ==
    {CreditRow(Val("Ann"), Val("ACTOR")), CreditRow(Val("Bob"), Val("DIRECTOR"))}

TitleFiles ==
    {Missing, Malformed} \cup {Csv(t) : t \in Tables(SampleTitleRows, MaxTitles)}

CreditFiles ==
    {Missing, Malformed} \cup {Csv(t) : t \in Tables(SampleCreditRows, MaxCredits)}

\* Titles tables that vary in the genre column only
MaxGenreRows == 4

GenreRows ==
    {TitleRow(g, Val("MOVIE"), Val(2001), Val(7), Val(100), Val(6), Val(5)) :
        g \in {NA, Val("Drama"), Val("Comedy"), Val("Action")}}

GenreTables == Tables(GenreRows, MaxGenreRows)

\* Titles tables that vary in the four rating columns
MaxCorrRows == 4

CorrRows ==
    {TitleRow(Val("Drama"), Val("MOVIE"), Val(2001), q[1], q[2], q[3], q[4]) :
        q \in {<<Val(1), Val(10), Val(1), Val(5)>>,
               <<Val(2), Val(10), Val(1), Val(5)>>,
               <<Val(1), Val(30), Val(2), Val(5)>>,
               <<Val(3), Val(20), Val(2), Val(7)>>,
               <<NA, Val(10), Val(2), Val(5)>>,
               <<Val(1), Val(30), NA, NA>>}}

CorrTables == Tables(CorrRows, MaxCorrRows)

\* Credits tables: a few free rows, some without a name, then names that
\* appear once each as actors: none, or about as many as the chart keeps
MaxFreeCredits == 3

MaxOver == 5

PadNames ==
    <<"P01", "P02", "P03", "P04", "P05", "P06", "P07", "P08", "P09",
      "P10", "P11", "P12", "P13", "P14", "P15", "P16", "P17", "P18",
      "P19", "P20", "P21", "P22", "P23", "P24", "P25", "P26", "P27",
      "P28">>

FreeCreditRows ==
    {CreditRow(Val(n), Val(r)) : n \in {"Ann", "Bob"}, r \in {"ACTOR", "DIRECTOR"}}
        \cup {CreditRow(NA, Val("ACTOR"))}

PadCounts == {0, TopN - 1, TopN, TopN + 1, TopN + MaxOver}

Pad(k) == [i \in 1..k |-> CreditRow(Val(PadNames[i]), Val("ACTOR"))]

CreditTables ==
    {t \o Pad(k) : t \in Tables(FreeCreditRows, MaxFreeCredits), k \in PadCounts}

-----------------------------------------------------------------------------
(* The render cycle *)

\* a session opens: nothing has run, every widget is at its first option
Session ==
    /\ cache = NoCache
    /\ tieOrder \in TieOrders
    /\ pc = "head"
    /\ df = Unbound
    /\ df_credits = Unbound
    /\ section = Sections[DefaultIndex]
    /\ role = Roles[DefaultIndex]
    /\ out = <<>>
    /\ ran = <<>>
    /\ ioLog = <<>>
    /\ first = <<>>
    /\ loads = 0
    /\ interacted = FALSE
    /\ ref = <<>>

Init ==
    /\ disk \in [titles : TitleFiles, credits : CreditFiles]
    /\ Session

InitGenre ==
    /\ disk \in [titles : {Csv(t) : t \in GenreTables}, credits : {Csv(<<>>)}]
    /\ Session

InitCorr ==
    /\ disk \in [titles : {Csv(t) : t \in CorrTables}, credits : {Csv(<<>>)}]
    /\ Session

InitCredits ==
    /\ disk \in [titles : {Csv(<<>>)}, credits : {Csv(t) : t \in CreditTables}]
    /\ Session

\* lines 12-31: the page's title and description
Header ==
    /\ pc = "head"
    /\ out' = out \o HeaderItems
    /\ pc' = "load"
    /\ UNCHANGED <<disk, cache, tieOrder, df, df_credits, section, role, ran,
                   ioLog, first, loads, interacted, ref>>

\* line 46: df, df_credits = load_data().  An error is not caught: the
\* framework shows it and the script run ends there.
LoadData ==
    /\ pc = "load"
    /\ LET r == cached_load_data(cache, disk)
       IN  /\ ioLog' = ioLog \o r.log
           /\ cache' = r.store
           /\ loads' = IF r.ok /\ r.log # <<>> THEN loads + 1 ELSE loads
           /\ IF r.ok
              THEN /\ df' = Bound(r.value.df)
                   /\ df_credits' = Bound(r.value.df_credits)
                   /\ first' = IF first = <<>> THEN <<r.value>> ELSE first
                   /\ out' = out
                   /\ pc' = "sidebar"
              ELSE /\ out' = Append(out, Item("exception", r.error))
                   /\ pc' = "failed"
                   /\ UNCHANGED <<df, df_credits, first>>
    /\ UNCHANGED <<disk, tieOrder, section, role, ran, interacted, ref>>

\* lines 51-64: the menu; the radio returns the session's selection
Sidebar ==
    /\ pc = "sidebar"
    /\ out' = out \o SidebarItems(section)
    /\ pc' = "dispatch"
    /\ UNCHANGED <<disk, cache, tieOrder, df, df_credits, section, role, ran,
                   ioLog, first, loads, interacted, ref>>

\* a view branch is entered and renders its items
Enter(branch, items) ==
    /\ pc = "dispatch"
    /\ Branch(section) = branch
    /\ ran' = Append(ran, branch)
    /\ out' = out \o items
    /\ pc' = "footer"

\* the overview reading the titles file again instead of using df
DatasetOverviewFromDisk ==
    /\ Enter("Dataset Overview",
             OverviewItems(IF read_csv(disk.titles).ok
                           THEN read_csv(disk.titles).table ELSE df[1]))
    /\ UNCHANGED <<disk, cache, tieOrder, df, df_credits, section, role,
                   ioLog, first, loads, interacted, ref>>

DatasetOverview ==
    /\ Enter("Dataset Overview", OverviewItems(df[1]))
    /\ UNCHANGED <<disk, cache, tieOrder, df, df_credits, section, role,
                   ioLog, first, loads, interacted, ref>>

\* the genre branch with the filter assigned back to df
GenreAnalysisInPlace ==
    /\ Enter("Genre Analysis", GenreItems(df[1], tieOrder))
    /\ df' = Bound(genre_df(df[1]))
    /\ UNCHANGED <<disk, cache, tieOrder, df_credits, section, role,
                   ioLog, first, loads, interacted, ref>>

GenreAnalysis ==
    /\ Enter("Genre Analysis", GenreItems(df[1], tieOrder))
    /\ UNCHANGED <<disk, cache, tieOrder, df, df_credits, section, role,
                   ioLog, first, loads, interacted, ref>>

ContentTypeDistribution ==
    /\ Enter("Content Type Distribution", TypeItems(df[1], tieOrder))
    /\ UNCHANGED <<disk, cache, tieOrder, df, df_credits, section, role,
                   ioLog, first, loads, interacted, ref>>

ReleaseYearAnalysis ==
    /\ Enter("Release Year Analysis", YearItems(df[1]))
    /\ UNCHANGED <<disk, cache, tieOrder, df, df_credits, section, role,
                   ioLog, first, loads, interacted, ref>>

RatingsPopularity ==
    /\ Enter("Ratings & Popularity", RatingsItems(df[1]))
    /\ UNCHANGED <<disk, cache, tieOrder, df, df_credits, section, role,
                   ioLog, first, loads, interacted, ref>>

CorrelationAnalysis ==
    /\ Enter("Correlation Analysis", CorrelationItems(df[1]))
    /\ UNCHANGED <<disk, cache, tieOrder, df, df_credits, section, role,
                   ioLog, first, loads, interacted, ref>>

\* the participation branch reading the top entry of the counts, which
\* raises when no row has the role
ActorsDirectorsStrict ==
    /\ pc = "dispatch"
    /\ Branch(section) = "Actors & Directors"
    /\ ran' = Append(ran, "Actors & Directors")
    /\ IF counts(df_credits[1], role, tieOrder) = <<>>
       THEN /\ out' = Append(out, Item("exception", "IndexError"))
            /\ pc' = "failed"
       ELSE /\ out' = out \o ActorsItems(df_credits[1], role, tieOrder)
            /\ pc' = "footer"
    /\ UNCHANGED <<disk, cache, tieOrder, df, df_credits, section, role,
                   ioLog, first, loads, interacted, ref>>

ActorsDirectors ==
    /\ Enter("Actors & Directors", ActorsItems(df_credits[1], role, tieOrder))
    /\ UNCHANGED <<disk, cache, tieOrder, df, df_credits, section, role,
                   ioLog, first, loads, interacted, ref>>

Conclusion ==
    /\ Enter("Conclusion", ConclusionItems)
    /\ UNCHANGED <<disk, cache, tieOrder, df, df_credits, section, role,
                   ioLog, first, loads, interacted, ref>>

\* lines 263-264, reached after the branch, or past the chain when no test
\* of it passed
Footer ==
    /\ \/ pc = "footer"
       \/ pc = "dispatch" /\ Branch(section) = NoBranch
    /\ out' = out \o FooterItems
    /\ pc' = "done"
    /\ UNCHANGED <<disk, cache, tieOrder, df, df_credits, section, role, ran,
                   ioLog, first, loads, interacted, ref>>

\* a new script run: the page is cleared and the script's names are gone
NewRun ==
    /\ pc' = "head"
    /\ out' = <<>>
    /\ ran' = <<>>
    /\ ioLog' = <<>>
    /\ df' = Unbound
    /\ df_credits' = Unbound

\* a menu that only steps to the entry after the current one
SelectNextSection(s) ==
    /\ pc = "done"
    /\ \E i \in 1..(Len(Sections) - 1) : section = Sections[i] /\ s = Sections[i + 1]
    /\ section' = s
    /\ role' = Roles[DefaultIndex]
    /\ interacted' = TRUE
    /\ NewRun
    /\ UNCHANGED <<disk, cache, tieOrder, first, loads, ref>>

\* the user picks another menu entry.  The role selectbox exists only in
\* the Actors & Directors view, so it starts anew whenever the view changes.
SelectSection(s) ==
    /\ pc = "done"
    /\ s # section
    /\ section' = s
    /\ role' = Roles[DefaultIndex]
    /\ interacted' = TRUE
    /\ NewRun
    /\ UNCHANGED <<disk, cache, tieOrder, first, loads, ref>>

\* the user picks another role in the selectbox the last cycle rendered
SelectRole(r) ==
    /\ pc = "done"
    /\ ran = <<"Actors & Directors">>
    /\ r # role
    /\ role' = r
    /\ interacted' = TRUE
    /\ NewRun
    /\ UNCHANGED <<disk, cache, tieOrder, section, first, loads, ref>>

\* the user reruns the page with the widgets as they are
Rerun ==
    /\ pc \in {"done", "failed"}
    /\ NewRun
    /\ UNCHANGED <<disk, cache, tieOrder, section, role, first, loads, interacted, ref>>

\* the page is opened anew: a new session of the same process, with every
\* widget back at its first option and the process's cache as it is
Reload ==
    /\ pc \in {"done", "failed"}
    /\ section' = Sections[DefaultIndex]
    /\ role' = Roles[DefaultIndex]
    /\ interacted' = FALSE
    /\ NewRun
    /\ UNCHANGED <<disk, cache, tieOrder, first, loads, ref>>

\* storage changes under the running process: a file is removed, damaged
\* or rewritten.  Only load_data reads storage, so a change
\* during the rest of a run shows no earlier than one made after the run:
\* changes are taken between runs and right before the load.
DiskWrite(titleFiles, creditFiles) ==
    /\ pc \in {"load", "done", "failed"}
    /\ \/ \E f \in titleFiles : disk' = [disk EXCEPT !.titles = f]
       \/ \E f \in creditFiles : disk' = [disk EXCEPT !.credits = f]
    /\ disk' # disk
    /\ UNCHANGED <<cache, tieOrder, pc, df, df_credits, section, role, out, ran,
                   ioLog, first, loads, interacted, ref>>

DiskChange == DiskWrite(TitleFiles, CreditFiles)

\* a file is cut down to its header line
DiskTruncate == DiskWrite({Csv(<<>>)}, {Csv(<<>>)})

\* history: remember this completed cycle, to compare a later one with it
Observe ==
    /\ pc = "done"
    /\ ref' = <<[section |-> section, role |-> role, out |-> out,
                 df |-> df[1], df_credits |-> df_credits[1]]>>
    /\ ref' # ref
    /\ UNCHANGED <<disk, cache, tieOrder, pc, df, df_credits, section, role, out,
                   ran, ioLog, first, loads, interacted>>

View ==
    \/ DatasetOverview
    \/ GenreAnalysis
    \/ ContentTypeDistribution
    \/ ReleaseYearAnalysis
    \/ RatingsPopularity
    \/ CorrelationAnalysis
    \/ ActorsDirectors
    \/ Conclusion

Cycle == Header \/ LoadData \/ Sidebar \/ View \/ Footer

Next ==
    \/ Cycle
    \/ \E i \in DOMAIN Sections : SelectSection(Sections[i])
    \/ \E i \in DOMAIN Roles : SelectRole(Roles[i])
    \/ Rerun
    \/ Reload
    \/ DiskChange

Spec == Init /\ [][Next]_vars

NextObserved ==
    \/ Cycle
    \/ \E i \in DOMAIN Sections : SelectSection(Sections[i])
    \/ \E i \in DOMAIN Roles : SelectRole(Roles[i])
    \/ Rerun
    \/ Reload
    \/ DiskTruncate
    \/ Observe

\* a user who only opens the genre view
NextGenre ==
    \/ Header \/ LoadData \/ Sidebar \/ DatasetOverview \/ GenreAnalysis \/ Footer
    \/ SelectSection("Genre Analysis")

SpecGenre == InitGenre /\ [][NextGenre]_vars

\* a user who only opens the correlation view
NextCorr ==
    \/ Header \/ LoadData \/ Sidebar \/ DatasetOverview \/ CorrelationAnalysis \/ Footer
    \/ SelectSection("Correlation Analysis")

SpecCorr == InitCorr /\ [][NextCorr]_vars

\* a user who only opens the participation view and switches the role
NextCredits ==
    \/ Header \/ LoadData \/ Sidebar \/ DatasetOverview \/ ActorsDirectors \/ Footer
    \/ SelectSection("Actors & Directors")
    \/ \E i \in DOMAIN Roles : SelectRole(Roles[i])

SpecCredits == InitCredits /\ [][NextCredits]_vars

\* the same program, with one earlier completed cycle remembered
SpecObserved == Init /\ [][NextObserved]_vars

-----------------------------------------------------------------------------
(* Properties *)

Range(f) == {f[i] : i \in DOMAIN f}

PastLoad == pc \in {"sidebar", "dispatch", "footer", "done"}

PastView == pc \in {"footer", "done"}

FullLog ==
    <<[file |-> "data/titles.csv", ok |-> TRUE],
      [file |-> "data/credits.csv", ok |-> TRUE]>>

\* what the cycle has rendered after the menu and before the footer
ViewPart ==
    SubSeq(out, Len(HeaderItems) + Len(SidebarItems(section)) + 1,
           Len(out) - (IF pc = "done" THEN Len(FooterItems) ELSE 0))

\* the kind of each rendered item; a chart by its figure and x column
Signature(items) ==
    [i \in 1..Len(items) |->
        IF items[i].w # "plotly_chart" THEN <<items[i].w>>
        ELSE IF items[i].body.fig = "imshow"
             THEN <<"imshow", items[i].body.labels>>
             ELSE <<items[i].body.fig, items[i].body.x>>]

\* the static table view -> aggregation
Expected(s) ==
    CASE s = "Dataset Overview" ->
            << <<"header">>, <<"write">>, <<"dataframe">>, <<"subheader">>, <<"write">> >>
      [] s = "Genre Analysis" -> << <<"header">>, <<"bar", "Genre">> >>
      [] s = "Content Type Distribution" -> << <<"header">>, <<"bar", "Type">> >>
      [] s = "Release Year Analysis" -> << <<"header">>, <<"histogram", "release_year">> >>
      [] s = "Ratings & Popularity" ->
            << <<"header">>, <<"scatter", "imdb_votes">>, <<"scatter", "tmdb_popularity">> >>
      [] s = "Correlation Analysis" ->
            << <<"header">>,
               <<"imshow", <<"imdb_score", "imdb_votes", "tmdb_score", "tmdb_popularity">> >> >>
      [] s = "Actors & Directors" -> << <<"header">>, <<"selectbox">>, <<"bar", "Count">> >>
      [] s = "Conclusion" -> << <<"header">>, <<"markdown">> >>

\* C3: load_data's body completes at most once in the process.  Once it has,
\* the cache entry stays the one the first load stored, every later call
\* binds df and df_credits to tables equal to the first load's, and a cycle
\* reads storage only if it is the one that made the first load, whatever
\* the files have become since.
C3_LoadedOnce ==
    /\ loads <= 1
    /\ first # <<>> => cache = first
    /\ PastLoad =>
          /\ first # <<>>
          /\ df = Bound(first[1].df)
          /\ df_credits = Bound(first[1].df_credits)
          /\ ioLog \in {<<>>, FullLog}
    /\ (first # <<>> /\ ~PastLoad) => ioLog = <<>>

\* a completed cycle served from the cache after the titles file was
\* removed or rewritten
C3_Witness ==
    /\ pc = "done"
    /\ ioLog = <<>>
    /\ disk.titles # Csv(df[1])
    /\ disk.credits # Csv(df_credits[1])

\* a failed read has ended the cycle: the error is the last thing rendered,
\* neither name is bound, nothing is cached, no file is read again, no
\* branch has run and no further step of the script can be taken
C4_FailedReadEndsCycle ==
    (\E i \in DOMAIN ioLog : ~ioLog[i].ok) =>
        /\ pc = "failed"
        /\ df = Unbound
        /\ df_credits = Unbound
        /\ cache = NoCache
        /\ first = <<>>
        /\ ran = <<>>
        /\ Len(out) = Len(HeaderItems) + 1
        /\ SubSeq(out, 1, Len(HeaderItems)) = HeaderItems
        /\ out[Len(out)].w = "exception"
        /\ out[Len(out)].body \in {"FileNotFoundError", "ParserError"}
        /\ \A i, j \in DOMAIN ioLog : ioLog[i].file = ioLog[j].file => i = j
        /\ ~ioLog[1].ok => Len(ioLog) = 1
        /\ ~ENABLED Cycle

\* a load that finds no cache entry and a file absent or unparsable fails
C4_BadFilesFail ==
    (/\ pc = "load"
     /\ pc' # "load"
     /\ cache = NoCache
     /\ (disk.titles \in {Missing, Malformed} \/ disk.credits \in {Missing, Malformed}))
    => (pc' = "failed" /\ cache' = NoCache /\ df' = Unbound /\ df_credits' = Unbound)

\* C4: when load_data runs and either file is absent or unparsable, the load
\* fails and the cycle ends there: the error is the last thing rendered,
\* neither table is bound or cached (also when only the second file fails),
\* no file is read again, no view branch runs, and neither the menu nor the
\* footer is rendered.
C4_LoadFailureIsFatal == []C4_FailedReadEndsCycle /\ [][C4_BadFilesFail]_vars

\* the titles parsed and the credits did not
C4_Witness ==
    /\ pc = "failed"
    /\ Len(ioLog) = 2
    /\ ioLog[1].ok
    /\ ~ioLog[2].ok

\* C5: past the load, the selection is one of the eight menu values; past
\* the dispatch, exactly one branch has run, the selected one, and what the
\* cycle rendered between menu and footer is that view's aggregation of the
\* static table and nothing else.
C5_ExactlyOneBranch ==
    /\ PastLoad =>
          /\ section \in Range(Sections)
          /\ Len(Sections) = 8
    /\ pc = "dispatch" => ran = <<>>
    /\ PastView =>
          /\ ran = <<section>>
          /\ Signature(ViewPart) = Expected(section)

C5_Witness ==
    /\ pc = "done"
    /\ section = "Content Type Distribution"
    /\ ran = <<"Content Type Distribution">>
    /\ Len(df[1]) > 0

\* C6: in every cycle, before and after the view branch, df and df_credits
\* are the tables of the first load, and so is the cache entry.
C6_TablesUnchanged ==
    PastLoad =>
        /\ first # <<>>
        /\ cache = first
        /\ df = Bound(first[1].df)
        /\ df_credits = Bound(first[1].df_credits)

\* the genre view has filtered a row out, in a cycle after a user's selection
C6_Witness ==
    /\ pc = "done"
    /\ interacted
    /\ ran = <<"Genre Analysis">>
    /\ Len(genre_df(df[1])) < Len(df[1])

\* C9: until the user touches a widget the selection is "Dataset Overview";
\* the view a cycle renders is the cycle's selection; and from a completed
\* cycle every other menu entry can be selected in one step.
C9_Selection ==
    /\ ~interacted => section = "Dataset Overview"
    /\ PastView => ran = <<section>>
    /\ pc = "done" =>
          \A s \in Range(Sections) \ {section} : ENABLED SelectSection(s)

\* the last menu entry was selected from the first
C9_Witness ==
    /\ pc = "done"
    /\ interacted
    /\ section = "Conclusion"
    /\ ran = <<"Conclusion">>

EmptyRole == filtered_df(df_credits[1], role) = <<>>

EmptyGenre == genre_df(df[1]) = <<>>

\* C10: when no credit row has the selected role, or no title row has a
\* genre, the branch can run, leaves the cycle at the footer, and the cycle
\* completes having rendered the view's chart over no data, and no error.
C10_EmptyResult ==
    /\ (pc = "dispatch" /\ section = "Actors & Directors" /\ EmptyRole)
          => ENABLED ActorsDirectors
    /\ (pc = "dispatch" /\ section = "Genre Analysis" /\ EmptyGenre)
          => ENABLED GenreAnalysis
    /\ (\/ ran = <<"Actors & Directors">> /\ EmptyRole
        \/ ran = <<"Genre Analysis">> /\ EmptyGenre)
          => /\ PastView
             /\ \A i \in DOMAIN out : out[i].w # "exception"
             /\ pc = "footer" => ENABLED Footer
             /\ ViewPart[Len(ViewPart)].w = "plotly_chart"
             /\ ViewPart[Len(ViewPart)].body.fig = "bar"
             /\ ViewPart[Len(ViewPart)].body.data = <<>>
             /\ pc = "done" =>
                   SubSeq(out, Len(out) - Len(FooterItems) + 1, Len(out)) = FooterItems

\* a non-empty credits table with no row of the selected role
C10_Witness ==
    /\ pc = "done"
    /\ section = "Actors & Directors"
    /\ role = "DIRECTOR"
    /\ df_credits[1] # <<>>
    /\ EmptyRole

SameTables == ref[1].df = df[1] /\ ref[1].df_credits = df_credits[1]

\* C7 as stated: over the same tables, two completed cycles with the same
\* selected view have rendered the same output.
C7_ViewAloneDecidesOutput ==
    (pc = "done" /\ ref # <<>> /\ SameTables /\ ref[1].section = section)
        => ref[1].out = out

\* C7, amended: over the same tables, two completed cycles with the same
\* selected view and the same selected role have rendered the same output.
C7_ViewAndRoleDecideOutput ==
    (pc = "done" /\ ref # <<>> /\ SameTables
        /\ ref[1].section = section /\ ref[1].role = role)
        => ref[1].out = out

\* a later cycle of the participation view, compared with an earlier one of
\* the same role, with another role's cycle in between
C7_Witness ==
    /\ pc = "done"
    /\ ref # <<>>
    /\ ref[1].section = "Actors & Directors"
    /\ section = "Actors & Directors"
    /\ ref[1].role = "DIRECTOR"
    /\ role = "DIRECTOR"
    /\ ref[1].out = out
    /\ ioLog = <<>>
    /\ df_credits[1] # <<>>

\* the data of the chart the view has rendered
ChartData == ViewPart[Len(ViewPart)].body.data

RowsWithGenre(g) == {i \in DOMAIN df[1] : df[1][i].primary_genre = Val(g)}

GenresPresent ==
    {df[1][i].primary_genre[1] :
        i \in {j \in DOMAIN df[1] : df[1][j].primary_genre # NA}}

\* C1: the genre view's counts hold one entry for each genre some row
\* carries, with the number of rows carrying it; the counts add up to the
\* number of rows with a genre; no key stands for an absent genre; and the
\* rows Drama, Drama, absent, Comedy give Drama: 2 and Comedy: 1.
C1_GenreCounts ==
    (PastView /\ ran = <<"Genre Analysis">>) =>
        LET n == Len(ChartData)
        IN  /\ \A i \in 1..n : DOMAIN ChartData[i] = {"Genre", "Count"}
            /\ {ChartData[i].Genre : i \in 1..n} = GenresPresent
            /\ \A i, j \in 1..n : ChartData[i].Genre = ChartData[j].Genre => i = j
            /\ \A i \in 1..n :
                  ChartData[i].Count = Cardinality(RowsWithGenre(ChartData[i].Genre))
            /\ Sum([i \in 1..n |-> ChartData[i].Count], n)
                  = Cardinality({i \in DOMAIN df[1] : df[1][i].primary_genre # NA})
            /\ Column(df[1], "primary_genre")
                  = <<Val("Drama"), Val("Drama"), NA, Val("Comedy")>>
               => ChartData = <<[Genre |-> "Drama", Count |-> 2],
                                [Genre |-> "Comedy", Count |-> 1]>>

\* the scenario's table, counted
C1_Witness ==
    /\ pc = "done"
    /\ ran = <<"Genre Analysis">>
    /\ Column(df[1], "primary_genre") = <<Val("Drama"), Val("Drama"), NA, Val("Comedy")>>
    /\ Len(ChartData) = 2

RowsOf(name) ==
    {i \in DOMAIN df_credits[1] :
        df_credits[1][i].name = Val(name) /\ df_credits[1][i].role = Val(role)}

NamesWithRole ==
    {df_credits[1][i].name[1] :
        i \in {j \in DOMAIN df_credits[1] :
                  /\ df_credits[1][j].role = Val(role)
                  /\ df_credits[1][j].name # NA}}

Min(a, b) == IF a <= b THEN a ELSE b

\* C2: the participation view's counts hold min(20, number of distinct names
\* with the selected role) entries, each a different name with that role and
\* the number of rows of that name and role, in non-increasing order of
\* count; every name with the role that is left out has a count no greater
\* than that of every name kept.
C2_TopTwenty ==
    (PastView /\ ran = <<"Actors & Directors">>) =>
        LET n    == Len(ChartData)
            kept == {ChartData[i].Name : i \in 1..n}
        IN  /\ role \in {"ACTOR", "DIRECTOR"}
            /\ n <= 20
            /\ n = Min(20, Cardinality(NamesWithRole))
            /\ kept \subseteq NamesWithRole
            /\ \A i, j \in 1..n : ChartData[i].Name = ChartData[j].Name => i = j
            /\ \A i \in 1..n :
                  ChartData[i].Count = Cardinality(RowsOf(ChartData[i].Name))
            /\ \A i \in 1..(n - 1) : ChartData[i].Count >= ChartData[i + 1].Count
            /\ \A a \in NamesWithRole \ kept : \A i \in 1..n :
                  Cardinality(RowsOf(a)) <= ChartData[i].Count

\* the scenario: one actor credited three times and 25 credited once
C2_Witness ==
    /\ pc = "done"
    /\ ran = <<"Actors & Directors">>
    /\ role = "ACTOR"
    /\ Cardinality(NamesWithRole) = 26
    /\ Cardinality(RowsOf("Ann")) = 3
    /\ \A a \in NamesWithRole \ {"Ann"} : Cardinality(RowsOf(a)) = 1
    /\ Len(ChartData) = 20
    /\ ChartData[1] = [Name |-> "Ann", Count |-> 3]

CompleteRows ==
    {i \in DOMAIN df[1] :
        \A c \in {"imdb_score", "imdb_votes", "tmdb_score", "tmdb_popularity"} :
            df[1][i][c] # NA}

\* the column takes two different values in the rows without a missing rating
Varies(c) == \E i, j \in CompleteRows : df[1][i][c] # df[1][j][c]

FixedOrder == <<"imdb_score", "imdb_votes", "tmdb_score", "tmdb_popularity">>

Mirrored(m) == \A i, j \in 1..4 : m[i][j] = m[j][i]

=============================================================================
